---- MODULE Spec2Model ----
(***************************************************************************)
(* Model of the Trello -> GitHub import script (src/index.ts).  The script *)
(* is a straight-line program: filter the board, fetch the target          *)
(* snapshot, look the users up, resolve labels / lists / milestones /      *)
(* statuses, gate on the collected failures, create labels, synchronise    *)
(* the statuses of existing project items, then create one issue per card. *)
(* Every target call is one action; a call that throws ends the run.       *)
(***************************************************************************)
EXTENDS Integers, Sequences, FiniteSets, TLC

\* ------------------------------------------------------------------ bounds
MaxRuns == 2
MaxCards == 2
MaxItems == 2

\* ------------------------------------------------- values of the map file
\* A reference of the map file is z.union([z.int(), z.string().min(1)]) or
\* absent.  The three shapes are kept apart so that === is strict.
IntV(n) == [t |-> "int", n |-> n, s |-> ""]
StrV(s) == [t |-> "str", n |-> 0, s |-> s]
Undef == [t |-> "undef", n |-> 0, s |-> ""]

\* Number.isInteger(v)
IsInteger(v) == v.t = "int"

\* JavaScript truthiness of an optional int-or-string
Truthy(v) == \/ v.t = "int" /\ v.n # 0
             \/ v.t = "str" /\ v.s # ""

\* Array.prototype.find / findIndex: the first index satisfying P, 0 if none
FirstIndex(seq, P(_)) ==
  IF \E i \in 1..Len(seq) : P(seq[i])
  THEN CHOOSE i \in 1..Len(seq) : P(seq[i]) /\ \A j \in 1..(i - 1) : ~P(seq[j])
  ELSE 0

\* Array.prototype.filter
Filter(seq, P(_)) == SelectSeq(seq, P)

\* Map.prototype.get / set / size on a map kept as a function
MapHas(m, k) == k \in DOMAIN m
MapSet(m, k, v) == [x \in (DOMAIN m) \cup {k} |-> IF x = k THEN v ELSE m[x]]
EmptyMap == [x \in {} |-> 0]
MapSize(m) == Cardinality(DOMAIN m)

\* ----------------------------------------------------- the target system
\* Milestones of the repository (GET /repos/{owner}/{repo}/milestones).
\* The reference 2 matches the first by id and the second by number.
GithubMilestones ==
  << [id |-> 2, number |-> 1, title |-> "v1"],
     [id |-> 7, number |-> 2, title |-> "v2"] >>

\* Options of the project's Status field (ids are strings in the GraphQL API)
StatusFieldOptions ==
  << [id |-> "o1", name |-> "Todo"],
     [id |-> "o2", name |-> "Done"] >>

\* The project snapshot returned by getProjectInfo()
NoProject == [set |-> FALSE, statusFieldOptions |-> << >>]
ProjectSnapshot == [set |-> TRUE, statusFieldOptions |-> StatusFieldOptions]

\* GitHub users that exist (GET /users/{username} answers 200 for these)
GithubUsers == {"alice"}

\* Labels of the repository before the first run
InitialGithubLabels ==
  << [id |-> 11, name |-> "bug"],
     [id |-> 12, name |-> "ui"] >>

\* ------------------------------------------------------- the identity matchers
\* githubLabels.data.find(...) of the label rules and of the list rules
FindGithubLabel(ghLabelSeq, ref) ==
  LET P(ghLabel) == \/ IsInteger(ref) /\ IntV(ghLabel.id) = ref
                    \/ StrV(ghLabel.name) = ref
  IN FirstIndex(ghLabelSeq, P)

\* githubMilestones.data.find(...)
FindGithubMilestone(milestones, ref) ==
  LET P(milestone) == \/ /\ IsInteger(ref)
                         /\ \/ IntV(milestone.id) = ref
                            \/ IntV(milestone.number) = ref
                      \/ StrV(milestone.title) = ref
  IN FirstIndex(milestones, P)

\* FindStatusOption with the integer test of the two other lookups added
FindStatusOption_IntegerId(options, ref) ==
  LET P(field) == \/ IsInteger(ref) /\ StrV(field.id) = ref
                  \/ StrV(field.name) = ref
  IN FirstIndex(options, P)

\* projectInfo.statusFieldOptions.find(...): no integer test, the id is a string
FindStatusOption(options, ref) ==
  LET P(field) == StrV(field.id) = ref \/ StrV(field.name) = ref
  IN FirstIndex(options, P)

\* trello.lists.find((list) => list.id === key || list.name === key)
FindTrelloList(lists, key) ==
  LET P(list) == list.id = key \/ list.name = key
  IN FirstIndex(lists, P)

\* ------------------------------------------------------------ resolution
\* One entry of `labels` (the Label union of lib/label): the fields a variant
\* does not carry are empty.
LabelEntry(type, trello, github, lookup, trelloList) ==
  [type |-> type, trello |-> trello, github |-> github, color |-> "",
   lookup |-> lookup, trelloList |-> trelloList]

\* ResolveTrelloLabel with the lookup of the existing labels done before the
\* create flag is looked at
ResolveTrelloLabel_ExistingFirst(trelloLabel, mapLabels, ghLabelSeq) ==
  LET P(labelMap) == labelMap.trello = trelloLabel.name
      mi == FirstIndex(mapLabels, P)
  IN IF mi = 0
     THEN LabelEntry("skipped", trelloLabel.name, "", Undef, "")
     ELSE LET mapped == mapLabels[mi]
              gi == FindGithubLabel(ghLabelSeq, mapped.github)
          IN IF gi # 0
             THEN LabelEntry("mapped", trelloLabel.name, ghLabelSeq[gi].name,
                             Undef, "")
             ELSE IF mapped.create
                  THEN [LabelEntry("toCreate", trelloLabel.name, mapped.github.s,
                                   Undef, "") EXCEPT !.color = mapped.color]
                  ELSE LabelEntry("missing", trelloLabel.name, "", mapped.github, "")

\* Body of `for (const trelloLabel of trello.labels)`: the entry pushed for one
\* Trello label
ResolveTrelloLabel(trelloLabel, mapLabels, ghLabelSeq) ==
  LET P(labelMap) == labelMap.trello = trelloLabel.name
      mi == FirstIndex(mapLabels, P)
  IN IF mi = 0
     THEN LabelEntry("skipped", trelloLabel.name, "", Undef, "")
     ELSE LET mapped == mapLabels[mi]
              gi == FindGithubLabel(ghLabelSeq, mapped.github)
          IN IF mapped.create
             THEN [LabelEntry("toCreate", trelloLabel.name, mapped.github.s,
                              Undef, "") EXCEPT !.color = mapped.color]
             ELSE IF gi = 0
                  THEN LabelEntry("missing", trelloLabel.name, "", mapped.github, "")
                  ELSE LabelEntry("mapped", trelloLabel.name, ghLabelSeq[gi].name,
                                  Undef, "")

\* The whole loop over trello.labels
ResolveTrelloLabels(trelloLabels, mapLabels, ghLabelSeq) ==
  [i \in 1..Len(trelloLabels) |->
     ResolveTrelloLabel(trelloLabels[i], mapLabels, ghLabelSeq)]

\* The collections the list loop fills, before the loop
EmptyResolution(labelSeq) ==
  [labels |-> labelSeq,
   invalidLists |-> << >>,
   validMilestones |-> EmptyMap,
   missingMilestones |-> << >>,
   usedStatusWithoutProject |-> FALSE,
   validStatusFields |-> EmptyMap,
   missingStatusFields |-> << >>,
   statusFieldsToCreate |-> << >>]

\* `if (mapping.label) {...}` of one list rule; stop is the `continue`
ListLabelStep(acc, mapping, trelloList, ghLabelSeq) ==
  IF ~Truthy(mapping.label)
  THEN [a |-> acc, stop |-> FALSE]
  ELSE LET gi == FindGithubLabel(ghLabelSeq, mapping.label)
       IN IF gi = 0
          THEN [a |-> [acc EXCEPT !.labels =
                         Append(@, LabelEntry("missingList", "", "", mapping.label,
                                              trelloList.id))],
                stop |-> TRUE]
          ELSE [a |-> [acc EXCEPT !.labels =
                         Append(@, LabelEntry("listMapped", "", ghLabelSeq[gi].name,
                                              Undef, trelloList.id))],
                stop |-> FALSE]

\* `if (mapping.milestone) {...}` of one list rule
ListMilestoneStep(acc, mapping, trelloList, milestones) ==
  IF ~Truthy(mapping.milestone)
  THEN [a |-> acc, stop |-> FALSE]
  ELSE LET gi == FindGithubMilestone(milestones, mapping.milestone)
       IN IF gi = 0
          THEN [a |-> [acc EXCEPT !.missingMilestones = Append(@, mapping.milestone)],
                stop |-> TRUE]
          ELSE [a |-> [acc EXCEPT !.validMilestones =
                         MapSet(@, trelloList.id, milestones[gi])],
                stop |-> FALSE]

\* `if (projectInfo && mapping.status) {...}` of one list rule.  The inner
\* `if (!projectInfo)` is kept as written: it is under the outer test.
ListStatusStep(acc, mapping, trelloList, info) ==
  IF ~(info.set /\ Truthy(mapping.status))
  THEN acc
  ELSE IF ~info.set
       THEN [acc EXCEPT !.usedStatusWithoutProject = TRUE]
       ELSE LET fi == FindStatusOption(info.statusFieldOptions, mapping.status)
            IN IF fi = 0
               THEN IF mapping.create /\ mapping.status.t = "str"
                    THEN [acc EXCEPT !.statusFieldsToCreate =
                            Append(@, [trelloListId |-> trelloList.id,
                                       name |-> mapping.status.s])]
                    ELSE [acc EXCEPT !.missingStatusFields =
                            Append(@, mapping.status)]
               ELSE [acc EXCEPT !.validStatusFields =
                       MapSet(@, trelloList.id, info.statusFieldOptions[fi])]

\* Body of `for (const mapping of map.lists)` for one rule
ResolveListRule(acc, mapping, trelloLists, ghLabelSeq, milestones, info) ==
  LET li == FindTrelloList(trelloLists, mapping.list)
  IN IF li = 0
     THEN [acc EXCEPT !.invalidLists = Append(@, mapping.list)]
     ELSE LET trelloList == trelloLists[li]
              s1 == ListLabelStep(acc, mapping, trelloList, ghLabelSeq)
              s2 == IF s1.stop THEN s1
                    ELSE ListMilestoneStep(s1.a, mapping, trelloList, milestones)
          IN IF s2.stop THEN s2.a
             ELSE ListStatusStep(s2.a, mapping, trelloList, info)

\* The loop over map.lists, rule 1 first
RECURSIVE ResolveListRules(_, _, _, _, _, _, _)
ResolveListRules(acc, rules, n, trelloLists, ghLabelSeq, milestones, info) ==
  IF n = 0 THEN acc
  ELSE ResolveListRule(
         ResolveListRules(acc, rules, n - 1, trelloLists, ghLabelSeq, milestones,
                          info),
         rules[n], trelloLists, ghLabelSeq, milestones, info)

\* The loop over map.skip.lists: [skippedLists, invalidLists]
RECURSIVE ResolveSkipLists(_, _, _, _)
ResolveSkipLists(skipped, invalid, keys, trelloLists) ==
  IF keys = << >> THEN [skippedLists |-> skipped, invalidLists |-> invalid]
  ELSE LET li == FindTrelloList(trelloLists, Head(keys))
       IN IF li # 0
          THEN ResolveSkipLists(Append(skipped, trelloLists[li].id), invalid,
                                Tail(keys), trelloLists)
          ELSE ResolveSkipLists(skipped, Append(invalid, Head(keys)),
                                Tail(keys), trelloLists)

\* ------------------------------------------------------------------ state
VARIABLES
  exportFile,     \* the Trello export as the JSON reader returns it (trelloVal)
  board,          \* trello: the export after BoardExport.safeParse
  map,            \* the parsed map file (MapFormat)
  opts,           \* --keep-closed, --keep-closed-lists
  ghLabels,       \* target: the repository's labels
  ghIssues,       \* target: the repository's issues
  ghComments,     \* target: the comments posted, in posting order
  ghItems,        \* target: the project's items
  run,            \* which run of the program this is
  pc,             \* position of the script
  cards,          \* trello.cards (the filters reassign it)
  githubLabels,   \* githubLabels.data, the snapshot of this run
  githubMilestones, \* githubMilestones.data, the snapshot of this run
  users,          \* users[]
  projectInfo,    \* result of getProjectInfo()
  resolved,       \* labels, invalidLists, validMilestones, ... of this run
  skippedLists,   \* ids of skippedLists[]
  idx,            \* index of the running loop (user, label, item, card)
  commentIdx,     \* index of the comment loop of the current card
  cursor,         \* getExistingProjectItems: the items the pages read so far hold
  existingItems,  \* items[] of getExistingProjectItems(), then its result
  issue,          \* issue.data of the current card
  itemId,         \* itemId of the current card
  calls           \* the target calls this run has issued, in order

inputs == << exportFile, board, map, opts >>
target == << ghLabels, ghIssues, ghComments, ghItems >>
locals == << cards, githubLabels, githubMilestones, users, projectInfo, resolved,
             skippedLists, idx, commentIdx, cursor, existingItems, issue, itemId >>
vars == << exportFile, board, map, opts, ghLabels, ghIssues, ghComments, ghItems,
           run, pc, cards, githubLabels, githubMilestones, users, projectInfo,
           resolved, skippedLists, idx, commentIdx, cursor, existingItems, issue,
           itemId, calls >>

\* One entry of the call log.  code is the HTTP status the call ended with
\* (200 success, 404 / 422 the two tolerated failures, 500 any other failure).
Call(op, phase, card, item, code) ==
  [op |-> op, phase |-> phase, card |-> card, item |-> item, code |-> code]

\* --------------------------------------------------------------- the inputs
TrelloLists ==
  << [id |-> "l1", name |-> "Todo", closed |-> FALSE],
     [id |-> "l2", name |-> "Done", closed |-> FALSE],
     [id |-> "l3", name |-> "Old", closed |-> TRUE] >>

TrelloLabels == << [name |-> "bug"], [name |-> "feat"] >>

CardIds == << "c1", "c2", "c3", "c4" >>

\* A card without description, checklists and attachments
Card(id, name, idList, closed, labelNames) ==
  [id |-> id, name |-> name, url |-> "https://trello.com/c/" \o id,
   idList |-> idList, closed |-> closed, labels |-> labelNames,
   desc |-> "", idChecklists |-> << >>, attachments |-> << >>]

\* The card with a description, linked checklists and attachments
DetailedCard(card, desc, idChecklists, attachments) ==
  [card EXCEPT !.desc = desc, !.idChecklists = idChecklists,
               !.attachments = attachments]

Attachment(name, url) == [name |-> name, url |-> url]

\* trello.checklists: one with a complete and an incomplete item, one empty
TrelloChecklists ==
  << [id |-> "k1", name |-> "Steps",
      checkItems |-> << [name |-> "one", state |-> "complete"],
                        [name |-> "two", state |-> "incomplete"] >>],
     [id |-> "k2", name |-> "Later", checkItems |-> << >>] >>

\* The `date` of an action as the JSON reader returns it: a string (the
\* ISO form of the instant ms) or a number, never a Date object
JsonString(ms) == [kind |-> "string", ms |-> ms]
JsonNumber(ms) == [kind |-> "number", ms |-> ms]
NoDate == [kind |-> "undefined", ms |-> 0]

\* A comment action of the export file
CommentAction(idCard, date, text) ==
  [type |-> "commentCard", idCard |-> idCard, date |-> date, text |-> text]

\* An action of another type; also what z.object({}) leaves of any action
OtherAction == [type |-> "other", idCard |-> "", date |-> NoDate, text |-> ""]

\* The union of BoardExport.actions: the commentCard object, whose
\* `date: z.date()` takes a Date object only, else z.object({}), which
\* strips every key
ParseAction(action) ==
  IF action.type = "commentCard" /\ action.date.kind = "Date"
  THEN action
  ELSE OtherAction

\* BoardExport.safeParse(trelloVal).data
ParseExport(file) ==
  [file EXCEPT !.actions = [i \in 1..Len(file.actions) |->
                              ParseAction(file.actions[i])]]

Board(cardSeq, actionSeq) ==
  [lists |-> TrelloLists, labels |-> TrelloLabels, cards |-> cardSeq,
   actions |-> actionSeq, checklists |-> TrelloChecklists]

ListRule(list, status, create, label, milestone) ==
  [list |-> list, status |-> status, create |-> create, label |-> label,
   milestone |-> milestone]

LabelRule(trelloName, github, create) ==
  [trello |-> trelloName, github |-> github, create |-> create, color |-> ""]

\* A rule of the `create: true` variant with its optional color
ColorLabelRule(trelloName, github, color) ==
  [trello |-> trelloName, github |-> StrV(github), create |-> TRUE,
   color |-> color]

UserRule(trelloName, github) == [trello |-> trelloName, github |-> github]

MapFile(project, labelRules, userRules, listRules, skipLists) ==
  [project |-> project, labels |-> labelRules, users |-> userRules,
   lists |-> listRules, skip |-> skipLists]

Opts(keepClosed, keepClosedLists) ==
  [keepClosed |-> keepClosed, keepClosedLists |-> keepClosedLists]

\* Project items of the target before the first run, from (title, status, isIssue)
ItemSpec(title, status, isIssue) ==
  [title |-> title, status |-> status, isIssue |-> isIssue]

IssueCountUpTo(specs, i) == Cardinality({j \in 1..i : specs[j].isIssue})

MakeItems(specs) ==
  [i \in 1..Len(specs) |->
     [id |-> i,
      issueNumber |-> IF specs[i].isIssue THEN IssueCountUpTo(specs, i) ELSE 0,
      issueTitle |-> specs[i].title,
      status |-> specs[i].status]]

MakeIssues(specs) ==
  LET P(sp) == sp.isIssue
      kept == SelectSeq(specs, P)
  IN [i \in 1..Len(kept) |->
        [number |-> i, title |-> kept[i].title, card |-> "", run |-> 0,
         body |-> << >>, labels |-> << >>, milestone |-> 0]]

\* `items(first: 100 ...)`: the items of one page of the project's items
PageSize == 100

SeqsUpTo(S, n) == UNION {[1..k -> S] : k \in 0..n}

\* Family A: one list rule drawn from every combination of references
WideListRules ==
  {ListRule(l, s, c, lb, m) :
     l \in {"l1", "Done", "nolist"},
     s \in {Undef, StrV("Todo"), StrV("o2"), StrV("nostatus"), IntV(7)},
     c \in BOOLEAN,
     lb \in {Undef, IntV(11), StrV("bug"), StrV("nolabel")},
     m \in {Undef, IntV(2), StrV("v2"), StrV("nom")}}

BoardA ==
  Board(<< Card("c1", "A", "l1", FALSE, << >>),
           Card("c2", "B", "l2", FALSE, << >>) >>, << >>)

ItemsA == << ItemSpec("A", "", TRUE) >>

InitA ==
  /\ exportFile = BoardA
  /\ \E project \in {Undef, IntV(3)}, rule \in WideListRules :
       map = MapFile(project, << >>, << >>, << rule >>, << >>)
  /\ opts = Opts(FALSE, FALSE)
  /\ ghItems = MakeItems(ItemsA)
  /\ ghIssues = MakeIssues(ItemsA)

\* Family B: boards of every shape against two sets of project items, and
\* project items of every shape against two boards, under a status mapping
CardShapes == {<< "A", "l1" >>, << "A", "l2" >>, << "B", "l2" >>}

BoardsB ==
  {Board([i \in 1..Len(shape) |->
            Card(CardIds[i], shape[i][1], shape[i][2], FALSE, << >>)], << >>) :
     shape \in SeqsUpTo(CardShapes, MaxCards)}

ItemShapes ==
  {ItemSpec("A", "", TRUE), ItemSpec("A", "Done", TRUE), ItemSpec("B", "Todo", TRUE)}

ListRulesB ==
  {<< ListRule("l1", StrV("Todo"), FALSE, Undef, Undef),
      ListRule("Done", StrV("o2"), FALSE, Undef, Undef) >>,
   << ListRule("Todo", StrV("Done"), FALSE, Undef, Undef) >>}

FixedBoardsB ==
  {Board(<< Card("c1", "A", "l1", FALSE, << >>),
            Card("c2", "A", "l2", FALSE, << >>) >>, << >>),
   Board(<< Card("c1", "A", "l2", FALSE, << >>),
            Card("c2", "B", "l2", FALSE, << >>) >>, << >>)}

FixedItemsB ==
  {<< ItemSpec("A", "", TRUE), ItemSpec("A", "Done", TRUE) >>,
   << ItemSpec("B", "Todo", TRUE) >>}

InitB ==
  /\ \E rules \in ListRulesB :
       map = MapFile(IntV(3), << >>, << >>, rules, << >>)
  /\ opts = Opts(FALSE, FALSE)
  /\ \E b \in BoardsB \cup FixedBoardsB,
        specs \in SeqsUpTo(ItemShapes, MaxItems) \cup FixedItemsB :
       /\ b \in FixedBoardsB \/ specs \in FixedItemsB
       /\ exportFile = b
       /\ ghItems = MakeItems(specs)
       /\ ghIssues = MakeIssues(specs)

\* Family F: one more project item than a page holds; the item of the second
\* page has the title of the board's card and no status
ItemsF ==
  [i \in 1..(PageSize + 1) |->
     IF i <= PageSize THEN ItemSpec("Z", "Todo", TRUE)
                      ELSE ItemSpec("A", "", TRUE)]

BoardF == Board(<< Card("c1", "A", "l1", FALSE, << >>) >>, << >>)

InitF ==
  /\ exportFile = BoardF
  /\ map = MapFile(IntV(3), << >>, << >>,
                   << ListRule("l1", StrV("Todo"), FALSE, Undef, Undef) >>,
                   << >>)
  /\ opts = Opts(FALSE, FALSE)
  /\ ghItems = MakeItems(ItemsF)
  /\ ghIssues = MakeIssues(ItemsF)

\* Family C: one board with comments, archived cards and an archived list,
\* under every combination of label rules, user rules, project and options,
\* and under pairs of list rules with skip lists
BoardC ==
  Board(<< Card("c1", "A", "l1", FALSE, << "bug" >>),
           Card("c2", "B", "l2", TRUE, << "feat", "bug" >>),
           Card("c3", "C", "l3", FALSE, << >>) >>,
        << CommentAction("c1", JsonString(2), "late"), OtherAction,
           CommentAction("c2", JsonString(1), "other card"),
           CommentAction("c1", JsonString(1), "early") >>)

ItemsC == << ItemSpec("A", "Done", TRUE), ItemSpec("B", "", FALSE) >>

LabelRulesC ==
  {<< >>,
   << LabelRule("bug", StrV("bug"), FALSE), LabelRule("feat", IntV(12), FALSE) >>,
   << LabelRule("bug", StrV("ui"), TRUE), LabelRule("feat", StrV("new"), TRUE) >>,
   << LabelRule("feat", StrV("ui"), FALSE), LabelRule("bug", IntV(99), FALSE) >>,
   << ColorLabelRule("bug", "new", "#ff0000"), LabelRule("bug", StrV("bug"), FALSE) >>}

UserRulesC ==
  {<< >>,
   << UserRule("al", "alice") >>,
   << UserRule("gh", "ghost"), UserRule("al", "alice") >>}

RulePoolC ==
  {ListRule("l1", StrV("Todo"), FALSE, StrV("ui"), IntV(1)),
   ListRule("Done", StrV("Later"), TRUE, Undef, Undef),
   ListRule("l2", Undef, FALSE, StrV("nolabel"), StrV("nom")),
   ListRule("nolist", StrV("Todo"), FALSE, Undef, Undef),
   ListRule("l1", StrV("Done"), FALSE, Undef, StrV("nom")),
   ListRule("Todo", Undef, FALSE, StrV("bug"), Undef)}

InitC1 ==
  /\ \E project \in {Undef, IntV(3)}, lr \in LabelRulesC, ur \in UserRulesC :
       map = MapFile(project, lr, ur,
                     << ListRule("l1", StrV("Todo"), FALSE, StrV("ui"), IntV(1)) >>,
                     << >>)
  /\ opts \in {Opts(kc, kl) : kc \in BOOLEAN, kl \in BOOLEAN}

InitC2 ==
  /\ \E project \in {Undef, IntV(3)}, r1 \in RulePoolC, r2 \in RulePoolC,
        sk \in {<< >>, << "Done" >>, << "l1", "gone" >>} :
       map = MapFile(project,
                     << LabelRule("bug", StrV("bug"), FALSE),
                        LabelRule("feat", IntV(12), FALSE) >>,
                     << >>, << r1, r2 >>, sk)
  /\ opts = Opts(TRUE, FALSE)

InitC ==
  /\ exportFile = BoardC
  /\ InitC1 \/ InitC2
  /\ ghItems = MakeItems(ItemsC)
  /\ ghIssues = MakeIssues(ItemsC)

\* Family D: a board with an archived card, a card of an archived list and
\* cards of a list that may be skipped, under every combination of the two
\* options and of skip.lists; every list has a status and every card a
\* project item
BoardD ==
  Board(<< Card("c1", "A", "l1", FALSE, << >>),
           Card("c2", "B", "l2", TRUE, << >>),
           Card("c3", "C", "l3", FALSE, << >>),
           Card("c4", "D", "l2", FALSE, << >>) >>, << >>)

ItemsD ==
  << ItemSpec("B", "", TRUE), ItemSpec("C", "Done", TRUE),
     ItemSpec("A", "Todo", TRUE), ItemSpec("D", "Todo", TRUE) >>

ListRulesD ==
  << ListRule("l1", StrV("Todo"), FALSE, Undef, Undef),
     ListRule("l2", StrV("Done"), FALSE, Undef, Undef),
     ListRule("Old", StrV("Todo"), FALSE, Undef, Undef) >>

InitD ==
  /\ exportFile = BoardD
  /\ \E sk \in {<< >>, << "Done" >>, << "l1" >>} :
       map = MapFile(IntV(3), << >>, << >>, ListRulesD, sk)
  /\ opts \in {Opts(kc, kl) : kc \in BOOLEAN, kl \in BOOLEAN}
  /\ ghItems = MakeItems(ItemsD)
  /\ ghIssues = MakeIssues(ItemsD)

\* Family E: a board of one card of every shape of description, linked
\* checklists (one of them not in the export) and attachments, with the
\* card's comments in every order of the export
CommentsE ==
  << CommentAction("c1", JsonString(2), "late"),
     CommentAction("c1", JsonString(1), "early"),
     CommentAction("c1", JsonNumber(1), "tie") >>

ActionOrdersE ==
  {<< OtherAction, CommentsE[p[1]], CommentAction("c2", JsonString(0), "other card"),
      CommentsE[p[2]], CommentsE[p[3]] >> : p \in Permutations(1..3)}

BoardsE ==
  {Board(<< DetailedCard(Card("c1", "A", "l1", FALSE, << >>), d, k, a) >>, acts) :
     d \in {"", "text"},
     k \in {<< >>, << "k1" >>, << "k2", "gone", "k1" >>, << "gone" >>},
     a \in {<< >>, << Attachment("doc", "u1") >>,
            << Attachment("doc", "u1"), Attachment("img", "u2") >>},
     acts \in ActionOrdersE}

InitE ==
  /\ exportFile \in BoardsE
  /\ map = MapFile(Undef, << >>, << >>, << >>, << >>)
  /\ opts = Opts(FALSE, FALSE)
  /\ ghItems = << >>
  /\ ghIssues = << >>

\* The state of a run before its first statement
RunStart ==
  /\ pc = "start"
  /\ cards = board.cards
  /\ githubLabels = << >>
  /\ githubMilestones = << >>
  /\ users = << >>
  /\ projectInfo = NoProject
  /\ resolved = EmptyResolution(<< >>)
  /\ skippedLists = << >>
  /\ idx = 1
  /\ commentIdx = 1
  /\ cursor = 0
  /\ existingItems = << >>
  /\ issue = 0
  /\ itemId = 0
  /\ calls = << >>

Init ==
  /\ InitA \/ InitB \/ InitC \/ InitD \/ InitE \/ InitF
  /\ board = ParseExport(exportFile)
  /\ ghLabels = InitialGithubLabels
  /\ ghComments = << >>
  /\ run = 1
  /\ RunStart

\* ------------------------------------------------- derived collections
\* const mappedLabels / missingLabels / skippedLabels / labelsToCreate
mappedLabels ==
  LET P(l) == l.type \in {"toCreate", "mapped", "listMapped"}
  IN Filter(resolved.labels, P)
missingLabels ==
  LET P(l) == l.type \in {"missing", "missingList"}
  IN Filter(resolved.labels, P)
skippedLabels ==
  LET P(l) == l.type = "skipped"
  IN Filter(resolved.labels, P)
labelsToCreate ==
  LET P(l) == l.type = "toCreate"
  IN Filter(resolved.labels, P)

\* const existingLabelsToCreate
existingLabelsToCreate ==
  LET P(label) == \E i \in 1..Len(githubLabels) : githubLabels[i].name = label.github
  IN Filter(labelsToCreate, P)

\* const validMembers / invalidMembers
validMembers ==
  LET P(mem) == mem.github # ""
  IN Filter(users, P)
invalidMembers ==
  LET P(mem) == mem.github = ""
  IN Filter(users, P)

\* ClosedFilters with the filter of the archived lists left out
ClosedFilters_CardsOnly(cardSeq, lists, o) ==
  LET P1(card) == ~card.closed
  IN IF ~o.keepClosed THEN Filter(cardSeq, P1) ELSE cardSeq

\* The closed-card and closed-list filters applied to trello.cards
ClosedFilters(cardSeq, lists, o) ==
  LET closedLists == {lists[i].id : i \in {j \in 1..Len(lists) : lists[j].closed}}
      P1(card) == ~card.closed
      P2(card) == card.idList \notin closedLists
      c1 == IF ~o.keepClosed THEN Filter(cardSeq, P1) ELSE cardSeq
  IN IF ~o.keepClosedLists THEN Filter(c1, P2) ELSE c1

\* trello.cards.filter((card) => !skippedLists.some(...))
SkipFilter(cardSeq, skipped) ==
  LET P(card) == ~\E i \in 1..Len(skipped) : skipped[i] = card.idList
  IN Filter(cardSeq, P)

\* The condition of the `if (...) { fail(); }` after the report
GateFails ==
  \/ Len(missingLabels) > 0
  \/ Len(invalidMembers) > 0
  \/ Len(resolved.invalidLists) > 0
  \/ Len(resolved.missingMilestones) > 0
  \/ Len(resolved.missingStatusFields) > 0
  \/ Len(resolved.statusFieldsToCreate) > 0
  \/ resolved.usedStatusWithoutProject

\* NextPhase with the synchronisation placed before the label creation
NextPhase_SyncFirst(phase) ==
  CASE phase = "confirm" -> "sync"
    [] phase = "sync" -> "labels"
    [] phase = "labels" -> "issues"
    [] phase = "issues" -> "done"

\* The order of the script's phases after the confirmation prompts
NextPhase(phase) ==
  CASE phase = "confirm" -> "labels"
    [] phase = "labels" -> "sync"
    [] phase = "sync" -> "issues"
    [] phase = "issues" -> "done"

\* LabelErrorTolerated with the 422 case rethrown like any other error
LabelErrorTolerated_None(code) == FALSE

\* catch (e) of the label loop: the statuses that are logged and skipped
LabelErrorTolerated(code) == code = 422

\* UserErrorTolerated with the 404 case rethrown like any other error
UserErrorTolerated_None(code) == FALSE

\* catch (e) of the user loop: the statuses that make an unverified member
UserErrorTolerated(code) == code = 404

\* `if (projectInfo && validStatusFields.size > 0)`
SyncPrecondition == projectInfo.set /\ MapSize(resolved.validStatusFields) > 0

\* The items getExistingProjectItems() keeps: those whose content is an issue
FetchedItems(items) ==
  LET P(item) == item.issueNumber # 0
      kept == Filter(items, P)
  IN [i \in 1..Len(kept) |->
        [id |-> kept[i].id, issueNumber |-> kept[i].issueNumber,
         issueTitle |-> kept[i].issueTitle, currentStatus |-> kept[i].status]]

\* SyncTarget with the current status name compared to the option's id
SyncTarget_CompareId(item, cardSeq, validStatusFields) ==
  LET P(card) == card.name = item.issueTitle
      ci == FirstIndex(cardSeq, P)
  IN IF ci = 0 THEN 0
     ELSE IF ~MapHas(validStatusFields, cardSeq[ci].idList) THEN 0
     ELSE IF item.currentStatus # validStatusFields[cardSeq[ci].idList].id
          THEN 1
          ELSE 0

\* Body of `for (const item of existingItems)` up to the call: 1 when the
\* item's status is to be set, 0 when the item is skipped
SyncTarget(item, cardSeq, validStatusFields) ==
  LET P(card) == card.name = item.issueTitle
      ci == FirstIndex(cardSeq, P)
  IN IF ci = 0 THEN 0
     ELSE IF ~MapHas(validStatusFields, cardSeq[ci].idList) THEN 0
     ELSE IF item.currentStatus # validStatusFields[cardSeq[ci].idList].name
          THEN 1
          ELSE 0

\* SyncExpected taking the list of the last card of that title, not the first
SyncExpected_LastCard(item, cardSeq, validStatusFields) ==
  LET last == CHOOSE i \in 1..Len(cardSeq) :
                /\ cardSeq[i].name = item.issueTitle
                /\ \A j \in (i + 1)..Len(cardSeq) : cardSeq[j].name # item.issueTitle
  IN IF MapHas(validStatusFields, cardSeq[last].idList)
     THEN validStatusFields[cardSeq[last].idList]
     ELSE validStatusFields[CHOOSE k \in DOMAIN validStatusFields : TRUE]

\* The expectedStatus of an item that SyncTarget says to update
SyncExpected(item, cardSeq, validStatusFields) ==
  LET P(card) == card.name = item.issueTitle
  IN validStatusFields[cardSeq[FirstIndex(cardSeq, P)].idList]

\* The target's side of updateProjectV2ItemFieldValue: the item takes the
\* option whose id was sent
SetItemStatus(items, id, statusId) ==
  LET P(o) == o.id = statusId
      oi == FirstIndex(StatusFieldOptions, P)
  IN [i \in 1..Len(items) |->
        IF items[i].id = id /\ oi # 0
        THEN [items[i] EXCEPT !.status = StatusFieldOptions[oi].name]
        ELSE items[i]]

\* The order of the calls made for one card: after `step`, the next step, or
\* "issues" for the next pass of the card loop
NextCardStep(step, card) ==
  CASE step = "create" -> "comments"
    [] step = "comments" -> IF projectInfo.set THEN "project" ELSE "issues"
    [] step = "project" ->
         IF MapHas(resolved.validStatusFields, card.idList)
         THEN "status" ELSE "issues"
    [] step = "status" -> "issues"

\* AfterFailedCardCall with the error of setIssueStatus logged and swallowed
AfterFailedCardCall_StatusSwallowed(step) ==
  IF step = "status" THEN "issues" ELSE "aborted"

\* Where the script is after a call of the card loop has thrown: no await of
\* the loop is inside a try, and the catch of setIssueStatus rethrows, so the
\* process ends
AfterFailedCardCall(step) == "aborted"

\* IssueLoopCards without the cards an earlier run has made an issue for
IssueLoopCards_SkipImported ==
  LET P(card) == ~\E i \in 1..Len(ghIssues) :
                   ghIssues[i].title = card.name /\ ghIssues[i].run < run
  IN Filter(cards, P)

\* The cards the issue loop walks
IssueLoopCards == cards

\* Array.prototype.join("\n")
RECURSIVE JoinLines(_)
JoinLines(lines) ==
  IF lines = << >> THEN ""
  ELSE IF Len(lines) = 1 THEN lines[1]
  ELSE JoinLines(SubSeq(lines, 1, Len(lines) - 1)) \o "\n" \o lines[Len(lines)]

\* The lines pushed for the checklists from the n-th on
RECURSIVE ChecklistLines(_, _)
ChecklistLines(checklists, n) ==
  IF n > Len(checklists) THEN << >>
  ELSE << "### " \o checklists[n].name >>
       \o [i \in 1..Len(checklists[n].checkItems) |->
             IF checklists[n].checkItems[i].state = "complete"
             THEN "- [x] " \o checklists[n].checkItems[i].name
             ELSE "- [ ] " \o checklists[n].checkItems[i].name]
       \o ChecklistLines(checklists, n + 1)

\* getChecklistContentForCard(card): << >> for null, << string >> otherwise
GetChecklistContentForCard(card) ==
  LET Found(id) == \E c \in 1..Len(board.checklists) : board.checklists[c].id = id
      ids == Filter(card.idChecklists, Found)
      checklists ==
        [i \in 1..Len(ids) |->
           board.checklists[CHOOSE c \in 1..Len(board.checklists) :
                              /\ board.checklists[c].id = ids[i]
                              /\ \A d \in 1..(c - 1) :
                                   board.checklists[d].id # ids[i]]]
  IN IF Len(checklists) < 1 THEN << >>
     ELSE << JoinLines(<< "\n## Checklists" >> \o ChecklistLines(checklists, 1)) >>

\* The rule between two sections of the body
Separator == "\n\n---\n\n"

\* `body += piece`: the body is kept as the sequence of its non-empty pieces
Concat(body, piece) == IF piece = "" THEN body ELSE Append(body, piece)

\* GetDescriptionForCard with the rule put before every checklist section
GetDescriptionForCard_RuleBeforeChecklists(card) ==
  LET checklistStr == GetChecklistContentForCard(card)
      b1 == IF Len(card.desc) > 0 THEN Concat(<< >>, card.desc) ELSE << >>
      b2 == IF checklistStr # << >>
            THEN Concat(Concat(b1, Separator), checklistStr[1])
            ELSE b1
      b3 == IF Len(card.desc) > 0 \/ checklistStr # << >>
            THEN Concat(b2, Separator) ELSE b2
      b4 == Concat(b3, "> Migrated from [Trello Card](" \o card.url \o ")\n")
  IN Concat(b4, JoinLines([i \in 1..Len(card.attachments) |->
                             "- [" \o card.attachments[i].name \o "]("
                               \o card.attachments[i].url \o ")"]))

\* getDescriptionForCard(card)
GetDescriptionForCard(card) ==
  LET checklistStr == GetChecklistContentForCard(card)
      b1 == IF Len(card.desc) > 0 THEN Concat(<< >>, card.desc) ELSE << >>
      b2 == IF checklistStr # << >>
            THEN Concat(IF Len(card.desc) > 0 THEN Concat(b1, Separator) ELSE b1,
                        checklistStr[1])
            ELSE b1
      b3 == IF Len(card.desc) > 0 \/ checklistStr # << >>
            THEN Concat(b2, Separator) ELSE b2
      b4 == Concat(b3, "> Migrated from [Trello Card](" \o card.url \o ")\n")
  IN Concat(b4, JoinLines([i \in 1..Len(card.attachments) |->
                             "- [" \o card.attachments[i].name \o "]("
                               \o card.attachments[i].url \o ")"]))

\* GetLabelsForCard without the label of the card's list
GetLabelsForCard_NoListLabel(card) ==
  LET Found(trelloName) ==
        LET P(label) == label.type # "listMapped" /\ label.trello = trelloName
        IN FirstIndex(mappedLabels, P)
      HasFound(trelloName) == Found(trelloName) # 0
      names == Filter(card.labels, HasFound)
  IN [i \in 1..Len(names) |-> mappedLabels[Found(names[i])].github]

\* getLabelsForCard(card)
GetLabelsForCard(card) ==
  LET Found(trelloName) ==
        LET P(label) == label.type # "listMapped" /\ label.trello = trelloName
        IN FirstIndex(mappedLabels, P)
      HasFound(trelloName) == Found(trelloName) # 0
      names == Filter(card.labels, HasFound)
      PL(label) == label.type = "listMapped" /\ label.trelloList = card.idList
      li == FirstIndex(mappedLabels, PL)
      fromLabels == [i \in 1..Len(names) |-> mappedLabels[Found(names[i])].github]
  IN IF li # 0 THEN Append(fromLabels, mappedLabels[li].github) ELSE fromLabels

\* validMilestones.get(card.id)?.number, 0 for undefined
MilestoneForCard(card) ==
  IF MapHas(resolved.validMilestones, card.id)
  THEN resolved.validMilestones[card.id].number
  ELSE 0

\* Array.prototype.sort((a, b) => a.date.getTime() - b.date.getTime()), which
\* is stable
RECURSIVE SortByDate(_)
SortByDate(seq) ==
  IF Len(seq) <= 1 THEN seq
  ELSE LET rest == SortByDate(SubSeq(seq, 1, Len(seq) - 1))
           last == seq[Len(seq)]
           k == Cardinality({i \in 1..Len(rest) : rest[i].date.ms <= last.date.ms})
       IN SubSeq(rest, 1, k) \o << last >> \o SubSeq(rest, k + 1, Len(rest))

\* getCommentsForCard(card): the comment actions of the card, oldest first
GetCommentsForCard(card) ==
  LET P(action) == action.type = "commentCard" /\ action.idCard = card.id
  IN SortByDate(Filter(board.actions, P))

\* ---------------------------------------------------------------- actions
\* The closed filters, then GET /repos/{owner}/{repo}/labels
Start ==
  /\ pc = "start"
  /\ cards' = ClosedFilters(cards, board.lists, opts)
  /\ \E code \in {200, 500} :
       /\ calls' = Append(calls, Call("listLabels", "fetch", "", 0, code))
       /\ IF code = 200
          THEN githubLabels' = ghLabels /\ pc' = "milestones"
          ELSE githubLabels' = githubLabels /\ pc' = "aborted"
  /\ UNCHANGED << inputs, target, run, githubMilestones, users, projectInfo,
                  resolved, skippedLists, idx, commentIdx, cursor, existingItems,
                  issue, itemId >>

\* GET /repos/{owner}/{repo}/milestones
GetMilestones ==
  /\ pc = "milestones"
  /\ \E code \in {200, 500} :
       /\ calls' = Append(calls, Call("listMilestones", "fetch", "", 0, code))
       /\ IF code = 200
          THEN githubMilestones' = GithubMilestones /\ pc' = "users"
          ELSE githubMilestones' = githubMilestones /\ pc' = "aborted"
  /\ idx' = 1
  /\ UNCHANGED << inputs, target, run, cards, githubLabels, users, projectInfo,
                  resolved, skippedLists, commentIdx, cursor, existingItems,
                  issue, itemId >>

\* One pass of `for (const user of map.users)`
LookupUser ==
  /\ pc = "users"
  /\ idx <= Len(map.users)
  /\ LET user == map.users[idx]
     IN \E code \in {200, 404, 500} :
          /\ code = 200 => user.github \in GithubUsers
          /\ code = 404 => user.github \notin GithubUsers
          /\ calls' = Append(calls, Call("getUser", "fetch", "", 0, code))
          /\ IF code = 200
             THEN /\ users' = Append(users, [trelloName |-> user.trello,
                                              githubName |-> user.github,
                                              github |-> user.github])
                  /\ idx' = idx + 1
                  /\ pc' = pc
             ELSE IF UserErrorTolerated(code)
             THEN /\ users' = Append(users, [trelloName |-> user.trello,
                                              githubName |-> user.github,
                                              github |-> ""])
                  /\ idx' = idx + 1
                  /\ pc' = pc
             ELSE /\ users' = users
                  /\ idx' = idx
                  /\ pc' = "aborted"
  /\ UNCHANGED << inputs, target, run, cards, githubLabels, githubMilestones,
                  projectInfo, resolved, skippedLists, commentIdx, cursor,
                  existingItems, issue, itemId >>

\* getProjectInfo(): null without map.project, else one GraphQL query
GetProjectInfo ==
  /\ pc = "users"
  /\ idx > Len(map.users)
  /\ IF ~Truthy(map.project)
     THEN /\ projectInfo' = NoProject
          /\ calls' = calls
          /\ pc' = "resolve"
     ELSE \E code \in {200, 500} :
            /\ calls' = Append(calls, Call("getProject", "fetch", "", 0, code))
            /\ IF code = 200
               THEN projectInfo' = ProjectSnapshot /\ pc' = "resolve"
               ELSE projectInfo' = projectInfo /\ pc' = "aborted"
  /\ UNCHANGED << inputs, target, run, cards, githubLabels, githubMilestones,
                  users, resolved, skippedLists, idx, commentIdx, cursor,
                  existingItems, issue, itemId >>

\* The label loop, the list loop, the skip loop and the skip filter
Resolve ==
  /\ pc = "resolve"
  /\ LET labels0 == ResolveTrelloLabels(board.labels, map.labels, githubLabels)
         acc == ResolveListRules(EmptyResolution(labels0), map.lists,
                                 Len(map.lists), board.lists, githubLabels,
                                 githubMilestones, projectInfo)
         sk == ResolveSkipLists(<< >>, acc.invalidLists, map.skip, board.lists)
     IN /\ resolved' = [acc EXCEPT !.invalidLists = sk.invalidLists]
        /\ skippedLists' = sk.skippedLists
        /\ cards' = SkipFilter(cards, sk.skippedLists)
  /\ pc' = "gate"
  /\ UNCHANGED << inputs, target, run, githubLabels, githubMilestones, users,
                  projectInfo, idx, commentIdx, cursor, existingItems, issue,
                  itemId, calls >>

\* The validation gate: fail() ends the process
Gate ==
  /\ pc = "gate"
  /\ pc' = IF GateFails THEN "failed" ELSE "confirm"
  /\ UNCHANGED << inputs, target, run, locals, calls >>

\* The prompt shown when labels are skipped: declining it cancels the run
ConfirmSkipped ==
  /\ pc = "confirm"
  /\ IF Len(skippedLabels) > 0
     THEN \E conf \in BOOLEAN :
            pc' = IF conf THEN "confirmExisting" ELSE "cancelled"
     ELSE pc' = "confirmExisting"
  /\ UNCHANGED << inputs, target, run, locals, calls >>

\* The prompt shown when labels to create exist already
ConfirmExisting ==
  /\ pc = "confirmExisting"
  /\ IF Len(existingLabelsToCreate) > 0
     THEN \E conf \in BOOLEAN :
            pc' = IF conf THEN NextPhase("confirm") ELSE "cancelled"
     ELSE pc' = NextPhase("confirm")
  /\ idx' = 1
  /\ UNCHANGED << inputs, target, run, cards, githubLabels, githubMilestones,
                  users, projectInfo, resolved, skippedLists, commentIdx, cursor,
                  existingItems, issue, itemId, calls >>

\* One pass of `for (const [count, label] of labelsToCreate.entries())`
CreateLabel ==
  /\ pc = "labels"
  /\ idx <= Len(labelsToCreate)
  /\ LET name == labelsToCreate[idx].github
         exists == \E i \in 1..Len(ghLabels) : ghLabels[i].name = name
     IN \E code \in {201, 422, 500} :
          /\ code = 201 => ~exists
          /\ code = 422 => exists
          /\ calls' = Append(calls, Call("createLabel", "labels", "", 0, code))
          /\ IF code = 201
             THEN /\ ghLabels' = Append(ghLabels, [id |-> 100 + Len(ghLabels),
                                                    name |-> name])
                  /\ idx' = idx + 1
                  /\ pc' = pc
             ELSE IF LabelErrorTolerated(code)
             THEN /\ ghLabels' = ghLabels
                  /\ idx' = idx + 1
                  /\ pc' = pc
             ELSE /\ ghLabels' = ghLabels
                  /\ idx' = idx
                  /\ pc' = "aborted"
  /\ UNCHANGED << inputs, ghIssues, ghComments, ghItems, run, cards, githubLabels,
                  githubMilestones, users, projectInfo, resolved, skippedLists,
                  commentIdx, cursor, existingItems, issue, itemId >>

\* The label loop has no label left (or `labelsToCreate.length > 0` is false)
LabelsDone ==
  /\ pc = "labels"
  /\ idx > Len(labelsToCreate)
  /\ pc' = NextPhase("labels")
  /\ idx' = 1
  /\ UNCHANGED << inputs, target, run, cards, githubLabels, githubMilestones,
                  users, projectInfo, resolved, skippedLists, commentIdx, cursor,
                  existingItems, issue, itemId, calls >>

\* `if (projectInfo && validStatusFields.size > 0)` is false
SkipSync ==
  /\ pc = "sync"
  /\ ~SyncPrecondition
  /\ pc' = NextPhase("sync")
  /\ idx' = 1
  /\ UNCHANGED << inputs, target, run, cards, githubLabels, githubMilestones,
                  users, projectInfo, resolved, skippedLists, commentIdx, cursor,
                  existingItems, issue, itemId, calls >>

\* One pass of `while (hasNextPage)` of getExistingProjectItems(): the query
\* for the next page of the project's items
FetchItems ==
  /\ pc = "sync"
  /\ SyncPrecondition
  /\ LET last == IF cursor + PageSize < Len(ghItems)
                 THEN cursor + PageSize ELSE Len(ghItems)
         nodes == SubSeq(ghItems, cursor + 1, last)
         hasNextPage == last < Len(ghItems)
     IN \E code \in {200, 500} :
          /\ calls' = Append(calls, Call("listItems", "sync", "", 0, code))
          /\ IF code = 200
             THEN /\ existingItems' = existingItems \o FetchedItems(nodes)
                  /\ cursor' = last
                  /\ pc' = IF hasNextPage THEN pc ELSE "syncLoop"
             ELSE /\ existingItems' = existingItems
                  /\ cursor' = cursor
                  /\ pc' = "aborted"
  /\ idx' = 1
  /\ UNCHANGED << inputs, target, run, cards, githubLabels, githubMilestones,
                  users, projectInfo, resolved, skippedLists, commentIdx, issue,
                  itemId >>

\* One pass of `for (const item of existingItems)`
SyncItem ==
  /\ pc = "syncLoop"
  /\ idx <= Len(existingItems)
  /\ LET item == existingItems[idx]
     IN IF SyncTarget(item, cards, resolved.validStatusFields) = 0
        THEN /\ idx' = idx + 1
             /\ UNCHANGED << ghItems, calls, pc >>
        ELSE LET expectedStatus ==
                   SyncExpected(item, cards, resolved.validStatusFields)
             IN \E code \in {200, 500} :
                  /\ calls' = Append(calls,
                                     Call("setStatus", "sync", "", item.id, code))
                  /\ IF code = 200
                     THEN /\ ghItems' = SetItemStatus(ghItems, item.id,
                                                      expectedStatus.id)
                          /\ idx' = idx + 1
                          /\ pc' = pc
                     ELSE /\ ghItems' = ghItems
                          /\ idx' = idx
                          /\ pc' = "aborted"
  /\ UNCHANGED << inputs, ghLabels, ghIssues, ghComments, run, cards, githubLabels,
                  githubMilestones, users, projectInfo, resolved, skippedLists,
                  commentIdx, cursor, existingItems, issue, itemId >>

\* The item loop has no item left
SyncDone ==
  /\ pc = "syncLoop"
  /\ idx > Len(existingItems)
  /\ pc' = NextPhase("sync")
  /\ idx' = 1
  /\ UNCHANGED << inputs, target, run, cards, githubLabels, githubMilestones,
                  users, projectInfo, resolved, skippedLists, commentIdx, cursor,
                  existingItems, issue, itemId, calls >>

\* POST /repos/{owner}/{repo}/issues for the current card
CreateIssue ==
  /\ pc = "issues"
  /\ idx <= Len(IssueLoopCards)
  /\ LET card == IssueLoopCards[idx]
     IN \E code \in {201, 500} :
          /\ calls' = Append(calls, Call("createIssue", "issues", card.id, 0, code))
          /\ IF code = 201
             THEN /\ ghIssues' = Append(ghIssues,
                      [number |-> Len(ghIssues) + 1, title |-> card.name,
                       card |-> card.id, run |-> run,
                       body |-> GetDescriptionForCard(card),
                       labels |-> GetLabelsForCard(card),
                       milestone |-> MilestoneForCard(card)])
                  /\ issue' = Len(ghIssues) + 1
                  /\ pc' = NextCardStep("create", card)
             ELSE /\ ghIssues' = ghIssues
                  /\ issue' = issue
                  /\ pc' = AfterFailedCardCall("create")
  /\ commentIdx' = 1
  /\ UNCHANGED << inputs, ghLabels, ghComments, ghItems, run, cards, githubLabels,
                  githubMilestones, users, projectInfo, resolved, skippedLists,
                  idx, cursor, existingItems, itemId >>

\* One pass of `for (const comment of comments)`: the next comment of the
\* card is posted, or, when none is left, the script is at `if (projectInfo)`
\* or at the next card
PostComments ==
  /\ pc = "comments"
  /\ LET card == IssueLoopCards[idx]
         comments == GetCommentsForCard(card)
     IN IF commentIdx <= Len(comments)
        THEN \E code \in {201, 500} :
               /\ calls' = Append(calls,
                                  Call("addComment", "issues", card.id, 0, code))
               /\ IF code = 201
                  THEN /\ ghComments' = Append(ghComments,
                           [issue |-> issue, text |-> comments[commentIdx].text])
                       /\ commentIdx' = commentIdx + 1
                       /\ pc' = pc
                  ELSE /\ ghComments' = ghComments
                       /\ commentIdx' = commentIdx
                       /\ pc' = AfterFailedCardCall("comments")
               /\ idx' = idx
        ELSE /\ pc' = NextCardStep("comments", card)
             /\ idx' = IF pc' = "issues" THEN idx + 1 ELSE idx
             /\ UNCHANGED << ghComments, commentIdx, calls >>
  /\ UNCHANGED << inputs, ghLabels, ghIssues, ghItems, run, cards, githubLabels,
                  githubMilestones, users, projectInfo, resolved, skippedLists,
                  cursor, existingItems, issue, itemId >>

\* addIssueToProject(issue.data.node_id), then the status lookup of the card
AddToProject ==
  /\ pc = "project"
  /\ LET card == IssueLoopCards[idx]
     IN \E code \in {200, 500} :
          /\ calls' = Append(calls, Call("addToProject", "issues", card.id, 0, code))
          /\ IF code = 200
             THEN /\ ghItems' = Append(ghItems,
                      [id |-> Len(ghItems) + 1, issueNumber |-> issue,
                       issueTitle |-> card.name, status |-> ""])
                  /\ itemId' = Len(ghItems) + 1
                  /\ pc' = NextCardStep("project", card)
                  /\ idx' = IF pc' = "issues" THEN idx + 1 ELSE idx
             ELSE /\ ghItems' = ghItems
                  /\ itemId' = itemId
                  /\ idx' = idx
                  /\ pc' = AfterFailedCardCall("project")
  /\ UNCHANGED << inputs, ghLabels, ghIssues, ghComments, run, cards, githubLabels,
                  githubMilestones, users, projectInfo, resolved, skippedLists,
                  commentIdx, cursor, existingItems, issue >>

\* setIssueStatus(itemId, status.id, status.name) for the created issue
SetStatus ==
  /\ pc = "status"
  /\ LET card == IssueLoopCards[idx]
         status == resolved.validStatusFields[card.idList]
     IN \E code \in {200, 500} :
          /\ calls' = Append(calls,
                             Call("setStatus", "issues", card.id, itemId, code))
          /\ IF code = 200
             THEN /\ ghItems' = SetItemStatus(ghItems, itemId, status.id)
                  /\ pc' = NextCardStep("status", card)
                  /\ idx' = IF pc' = "issues" THEN idx + 1 ELSE idx
             ELSE /\ ghItems' = ghItems
                  /\ pc' = AfterFailedCardCall("status")
                  /\ idx' = IF pc' = "issues" THEN idx + 1 ELSE idx
  /\ UNCHANGED << inputs, ghLabels, ghIssues, ghComments, run, cards, githubLabels,
                  githubMilestones, users, projectInfo, resolved, skippedLists,
                  commentIdx, cursor, existingItems, issue, itemId >>

\* The card loop has no card left: spin.stop, p.outro
Finish ==
  /\ pc = "issues"
  /\ idx > Len(IssueLoopCards)
  /\ pc' = NextPhase("issues")
  /\ UNCHANGED << inputs, target, run, locals, calls >>

\* The positions at which the process has ended: p.outro after the last card,
\* an error thrown by a request, fail() at the gate, onCancel() at a prompt
Terminated == {"done", "aborted", "failed", "cancelled"}

\* The program is started again with the same export and map file, however
\* the run before it ended
Rerun ==
  /\ pc \in Terminated
  /\ run < MaxRuns
  /\ run' = run + 1
  /\ pc' = "start"
  /\ cards' = board.cards
  /\ githubLabels' = << >>
  /\ githubMilestones' = << >>
  /\ users' = << >>
  /\ projectInfo' = NoProject
  /\ resolved' = EmptyResolution(<< >>)
  /\ skippedLists' = << >>
  /\ idx' = 1
  /\ commentIdx' = 1
  /\ cursor' = 0
  /\ existingItems' = << >>
  /\ issue' = 0
  /\ itemId' = 0
  /\ calls' = << >>
  /\ UNCHANGED << inputs, target >>

Next ==
  \/ Start
  \/ GetMilestones
  \/ LookupUser
  \/ GetProjectInfo
  \/ Resolve
  \/ Gate
  \/ ConfirmSkipped
  \/ ConfirmExisting
  \/ CreateLabel
  \/ LabelsDone
  \/ SkipSync
  \/ FetchItems
  \/ SyncItem
  \/ SyncDone
  \/ CreateIssue
  \/ PostComments
  \/ AddToProject
  \/ SetStatus
  \/ Finish
  \/ Rerun

Spec == Init /\ [][Next]_vars

\* ------------------------------------------------------------ properties
MutatingOps == {"createLabel", "createIssue", "addComment", "addToProject", "setStatus"}

MutatingCallIssued == \E i \in 1..Len(calls) : calls[i].op \in MutatingOps

\* The six failure classes the resolution pass and the user loop collect
\* from failed lookups
LookupFailureCollected ==
  \/ \E i \in 1..Len(resolved.labels) :
       resolved.labels[i].type \in {"missing", "missingList"}
  \/ \E i \in 1..Len(users) : users[i].github = ""
  \/ resolved.invalidLists # << >>
  \/ resolved.missingMilestones # << >>
  \/ resolved.missingStatusFields # << >>
  \/ resolved.statusFieldsToCreate # << >>

\* A list rule carries a status reference while no project is configured
StatusUsedWithoutProject ==
  /\ ~Truthy(map.project)
  /\ \E i \in 1..Len(map.lists) : Truthy(map.lists[i].status)

\* The plan is invalid: one of the seven failure classes is not empty, the
\* seventh being a status reference used without a project
PlanInvalid == LookupFailureCollected \/ StatusUsedWithoutProject

\* C1: in a run whose plan is invalid (one of the seven failure classes is
\* not empty) no mutating target call is ever issued; mutating calls occur
\* only when all seven are empty.
C1_NoMutationWhenInvalid == PlanInvalid => ~MutatingCallIssued

\* C1, for the classes the program collects (the six above and the flag
\* usedStatusWithoutProject): no mutating call is issued once one of them
\* is not empty.
C1_NoMutationWhenCollected ==
  (LookupFailureCollected \/ resolved.usedStatusWithoutProject)
    => ~MutatingCallIssued

\* Whether `x` occurs in the sequence
InSeq(seq, x) == \E k \in 1..Len(seq) : seq[k] = x

\* C2: validation is exhaustive: after the single resolution pass every
\* unresolvable reference of the map is in its failure collection; for a
\* list rule whose list resolves, its label, milestone and status references
\* are each evaluated whether or not another reference of the rule failed.
C2_ExhaustiveValidation ==
  pc = "gate" =>
    \A i \in 1..Len(map.lists) :
      LET mapping == map.lists[i]
          li == FindTrelloList(board.lists, mapping.list)
      IN IF li = 0
         THEN InSeq(resolved.invalidLists, mapping.list)
         ELSE /\ (Truthy(mapping.label)
                  /\ FindGithubLabel(githubLabels, mapping.label) = 0)
                 => InSeq(resolved.labels,
                          LabelEntry("missingList", "", "", mapping.label,
                                     board.lists[li].id))
              /\ (Truthy(mapping.milestone)
                  /\ FindGithubMilestone(githubMilestones, mapping.milestone) = 0)
                 => InSeq(resolved.missingMilestones, mapping.milestone)
              /\ (projectInfo.set /\ Truthy(mapping.status)
                  /\ FindStatusOption(projectInfo.statusFieldOptions,
                                      mapping.status) = 0)
                 => \/ InSeq(resolved.missingStatusFields, mapping.status)
                    \/ \E k \in 1..Len(resolved.statusFieldsToCreate) :
                         resolved.statusFieldsToCreate[k].trelloListId =
                           board.lists[li].id

\* C3: if a list rule carries a status reference while no project number is
\* configured, "status used without project" is raised, the plan is invalid
\* and the run halts before any mutation.
C3_StatusWithoutProjectRaised ==
  StatusUsedWithoutProject =>
    /\ pc = "gate" => resolved.usedStatusWithoutProject /\ GateFails
    /\ ~MutatingCallIssued

\* The candidates of the three target-side lookups, as (id, number, name)
LabelCandidates(ghLabelSeq) ==
  [i \in 1..Len(ghLabelSeq) |->
     [id |-> IntV(ghLabelSeq[i].id), number |-> Undef,
      name |-> StrV(ghLabelSeq[i].name)]]
MilestoneCandidates ==
  [i \in 1..Len(githubMilestones) |->
     [id |-> IntV(githubMilestones[i].id),
      number |-> IntV(githubMilestones[i].number),
      name |-> StrV(githubMilestones[i].title)]]
StatusCandidates ==
  [i \in 1..Len(StatusFieldOptions) |->
     [id |-> StrV(StatusFieldOptions[i].id), number |-> Undef,
      name |-> StrV(StatusFieldOptions[i].name)]]

\* The Identity Matcher as the specification states it: an id or number matches only
\* an integer reference
ContractFind(candidates, ref) ==
  LET P(c) == \/ IsInteger(ref) /\ (c.id = ref \/ c.number = ref)
              \/ c.name = ref
  IN FirstIndex(candidates, P)

\* The matcher of the status options as the code has it: the id or the name
\* equals the reference, whatever the reference's type
IdOrNameFind(candidates, ref) ==
  LET P(c) == c.id = ref \/ c.name = ref
  IN FirstIndex(candidates, P)

\* The label and milestone lookups of the resolution pass follow the contract
LabelAndMilestoneLookupsFollowContract ==
  /\ \A i \in 1..Len(map.labels) :
       FindGithubLabel(githubLabels, map.labels[i].github)
         = ContractFind(LabelCandidates(githubLabels), map.labels[i].github)
  /\ \A i \in 1..Len(map.lists) :
       /\ Truthy(map.lists[i].label) =>
            FindGithubLabel(githubLabels, map.lists[i].label)
              = ContractFind(LabelCandidates(githubLabels), map.lists[i].label)
       /\ Truthy(map.lists[i].milestone) =>
            FindGithubMilestone(githubMilestones, map.lists[i].milestone)
              = ContractFind(MilestoneCandidates, map.lists[i].milestone)

\* C4 (as specified): every target-side lookup, the status options included,
\* returns the first candidate for which (the reference is an integer and
\* equals the id or number) or (the reference equals the name); a string
\* reference never matches through an id.
C4_AllLookupsFollowContract ==
  pc = "gate" =>
    /\ LabelAndMilestoneLookupsFollowContract
    /\ \A i \in 1..Len(map.lists) :
         (projectInfo.set /\ Truthy(map.lists[i].status)) =>
           FindStatusOption(StatusFieldOptions, map.lists[i].status)
             = ContractFind(StatusCandidates, map.lists[i].status)

\* C4 (amended): the label and milestone lookups follow the contract; the
\* status-option lookup returns the first option whose id equals the
\* reference or whose name equals it, with no integer test, so a string
\* reference matches an option through its id.
C4_LookupsAsCoded ==
  pc = "gate" =>
    /\ LabelAndMilestoneLookupsFollowContract
    /\ \A i \in 1..Len(map.lists) :
         (projectInfo.set /\ Truthy(map.lists[i].status)) =>
           FindStatusOption(StatusFieldOptions, map.lists[i].status)
             = IdOrNameFind(StatusCandidates, map.lists[i].status)

\* C4 witness: the list rule's status "o2" is the id of the option named
\* Done, and the list is mapped to that option
C4_Witness ==
  /\ pc = "gate"
  /\ Len(map.lists) = 1
  /\ map.lists[1].status = StrV("o2")
  /\ map.lists[1].list = "l1"
  /\ MapHas(resolved.validStatusFields, "l1")
  /\ resolved.validStatusFields["l1"].name = "Done"

\* The number of issues the program has created for a card
IssuesOfCard(id) == Cardinality({i \in 1..Len(ghIssues) : ghIssues[i].card = id})

\* C5 (as specified): issue creation is idempotent across runs: however often
\* the import is run again, no card has more than one issue.
C5_AtMostOneIssuePerCard ==
  \A i \in 1..Len(board.cards) : IssuesOfCard(board.cards[i].id) <= 1

\* The number of issues this run has created for a card
IssuesOfCardThisRun(id) ==
  Cardinality({i \in 1..Len(ghIssues) :
                 ghIssues[i].card = id /\ ghIssues[i].run = run})

\* C5 (amended): issue creation is not idempotent across runs: every
\* completed run creates exactly one new issue for each remaining card,
\* whatever the target already holds, so a card an earlier run imported
\* gets a further issue.
C5_OneIssuePerCardPerRun ==
  pc = "done" =>
    \A i \in 1..Len(cards) : IssuesOfCardThisRun(cards[i].id) = 1

\* C5 witness: the second run has completed against the issues and project
\* items of the first, and a card has two issues
C5_Witness ==
  /\ pc = "done"
  /\ run = 2
  /\ projectInfo.set
  /\ \E i \in 1..Len(cards) :
       /\ IssuesOfCard(cards[i].id) = 2
       /\ IssuesOfCardThisRun(cards[i].id) = 1

\* The synchroniser's update calls of this run for the item `id`
SyncCallsFor(id) ==
  Cardinality({i \in 1..Len(calls) :
                 /\ calls[i].op = "setStatus"
                 /\ calls[i].phase = "sync"
                 /\ calls[i].item = id})

SyncCallCount ==
  Cardinality({i \in 1..Len(calls) :
                 calls[i].op = "setStatus" /\ calls[i].phase = "sync"})

\* Conditions (a)-(c) of C6 for a fetched item
NeedsUpdate(item) ==
  \E c \in 1..Len(cards) :
    /\ cards[c].name = item.issueTitle
    /\ \A d \in 1..(c - 1) : cards[d].name # item.issueTitle
    /\ cards[c].idList \in DOMAIN resolved.validStatusFields
    /\ item.currentStatus # resolved.validStatusFields[cards[c].idList].name

AfterSyncPhase == pc \in {"issues", "comments", "project", "status", "done"}

\* C6: the synchroniser issues exactly one field-value update for an
\* existing item iff (a) a remaining card has the item's title, (b) the list
\* of the first such card has a resolved status and (c) the item's status
\* name differs from that status; every other item gets no call, so the
\* number of updates is the number of items satisfying (a)-(c).
C6_SyncUpdatesExactlyDrifted ==
  /\ pc = "syncLoop" =>
       \A k \in 1..Len(existingItems) :
         SyncCallsFor(existingItems[k].id)
           = IF k < idx /\ NeedsUpdate(existingItems[k]) THEN 1 ELSE 0
  /\ AfterSyncPhase =>
       /\ \A k \in 1..Len(existingItems) :
            SyncCallsFor(existingItems[k].id)
              = IF NeedsUpdate(existingItems[k]) THEN 1 ELSE 0
       /\ SyncCallCount
            = Cardinality({k \in 1..Len(existingItems) :
                             NeedsUpdate(existingItems[k])})

\* C6 witness: the pass is over; of two existing items one was updated and
\* the other, already at its expected status, was not
C6_Witness ==
  /\ pc = "issues"
  /\ Len(existingItems) = 2
  /\ SyncCallCount = 1
  /\ \E k \in 1..2 :
       /\ ~NeedsUpdate(existingItems[k])
       /\ \E c \in 1..Len(cards) : cards[c].name = existingItems[k].issueTitle

\* This run's synchroniser pass has ended and no issue has been created yet
SyncPassJustEnded ==
  /\ pc = "issues"
  /\ idx = 1
  /\ \E i \in 1..Len(calls) : calls[i].op = "listItems" /\ calls[i].code = 200

\* C7: after a synchroniser pass whose updates were all applied, a second
\* pass over the same board and mapping with the target otherwise unchanged
\* issues no update, whatever the titles of the cards and the statuses of
\* the items were.
C7_SecondPassIssuesNoUpdate ==
  SyncPassJustEnded =>
    \A k \in 1..Len(FetchedItems(ghItems)) :
      SyncTarget(FetchedItems(ghItems)[k], cards, resolved.validStatusFields) = 0

\* C7 witness: a pass that updated an item of a board on which two cards
\* have the same title has ended
C7_Witness ==
  /\ SyncPassJustEnded
  /\ SyncCallCount >= 1
  /\ \E c, d \in 1..Len(cards) :
       c # d /\ cards[c].name = cards[d].name /\ cards[c].idList # cards[d].idList

\* C8: the phases occur in the order fetch and resolve, create missing
\* labels, synchronise existing items, create issues: every create-label
\* call precedes the fetch of the project items and every synchroniser
\* update, and every synchroniser call precedes the first create-issue call.
C8_PhaseOrder ==
  \A i, j \in 1..Len(calls) :
    i < j =>
      /\ calls[j].phase = "fetch" => calls[i].phase = "fetch"
      /\ calls[j].phase = "labels" => calls[i].phase \in {"fetch", "labels"}
      /\ calls[j].phase = "sync" => calls[i].phase \in {"fetch", "labels", "sync"}

\* C8 witness: a completed run that created a label, updated an existing
\* item and created an issue
C8_Witness ==
  /\ pc = "done"
  /\ \E i, j, k \in 1..Len(calls) :
       /\ calls[i].op = "createLabel" /\ calls[i].code = 201
       /\ calls[j].op = "setStatus" /\ calls[j].phase = "sync"
       /\ calls[k].op = "createIssue"

\* The calls C9 expects for one card, as (op, card), when its comments are
\* the comment actions of `actions`
ExpectedCardCalls(actions, card) ==
  LET n == Cardinality({a \in 1..Len(actions) :
                          /\ actions[a].type = "commentCard"
                          /\ actions[a].idCard = card.id})
      listHasStatus == card.idList \in DOMAIN resolved.validStatusFields
  IN << << "createIssue", card.id >> >>
     \o [k \in 1..n |-> << "addComment", card.id >>]
     \o (IF projectInfo.set THEN << << "addToProject", card.id >> >> ELSE << >>)
     \o (IF projectInfo.set /\ listHasStatus
         THEN << << "setStatus", card.id >> >> ELSE << >>)

RECURSIVE ExpectedIssueCalls(_, _)
ExpectedIssueCalls(actions, cardSeq) ==
  IF cardSeq = << >> THEN << >>
  ELSE ExpectedCardCalls(actions, Head(cardSeq))
         \o ExpectedIssueCalls(actions, Tail(cardSeq))

\* The calls of the issue loop this run has issued, as (op, card)
IssueCalls ==
  LET P(c) == c.phase = "issues"
      made == Filter(calls, P)
  IN [k \in 1..Len(made) |-> << made[k].op, made[k].card >>]

\* The calls of the issue loop are those expected for the comment actions
\* of `actions`, in board order, and none follows a failed one
CardCallsFollow(actions) ==
  LET expected == ExpectedIssueCalls(actions, cards)
  IN /\ Len(IssueCalls) <= Len(expected)
     /\ IssueCalls = SubSeq(expected, 1, Len(IssueCalls))
     /\ pc = "done" => IssueCalls = expected
     /\ \A i \in 1..Len(calls) :
          (calls[i].phase = "issues" /\ calls[i].code = 500) => i = Len(calls)

\* C9: cards are processed one at a time in board order; for each remaining
\* card the calls are create issue, all of its comments, then (only with a
\* project) add to project, then set status iff the card's list has a
\* resolved status; no call is issued after a failed one.
C9_CardCallOrder == CardCallsFollow(exportFile.actions)

\* C9, with the comments of a card taken to be the comment actions the
\* parser kept: the order of the calls is as specified.
C9_CardCallOrderOfParsed == CardCallsFollow(board.actions)

\* C10: a create-label call answered 422 does not abort the run: the
\* remaining labels are attempted and the run goes on to synchronisation
\* and issue creation; a create-label call failing otherwise is the run's
\* last target call.
C10_LabelErrors ==
  /\ \A i \in 1..Len(calls) :
       calls[i].op = "createLabel" =>
         /\ calls[i].code = 422 => ~(i = Len(calls) /\ pc = "aborted")
         /\ calls[i].code = 500 => (i = Len(calls) /\ pc = "aborted")
  /\ (AfterSyncPhase \/ pc \in {"sync", "syncLoop"}) =>
       Cardinality({i \in 1..Len(calls) : calls[i].op = "createLabel"})
         = Len(labelsToCreate)

\* C10 witness: a completed run in which the first create-label call was
\* answered 422, a later one succeeded and an issue was created
C10_Witness ==
  /\ pc = "done"
  /\ \E i, j, k \in 1..Len(calls) :
       /\ i < j /\ j < k
       /\ calls[i].op = "createLabel" /\ calls[i].code = 422
       /\ calls[j].op = "createLabel" /\ calls[j].code = 201
       /\ calls[k].op = "createIssue" /\ calls[k].code = 201

\* The successful create-issue calls of this run
CreatedThisRun ==
  Cardinality({i \in 1..Len(calls) :
                 calls[i].op = "createIssue" /\ calls[i].code = 201})

\* The issues of the target that this run created
IssuesOfThisRun == Cardinality({i \in 1..Len(ghIssues) : ghIssues[i].run = run})

\* C11: a failed call of the card loop (create issue, add comment, add to
\* project, set status) aborts the run at once: it is the run's last target
\* call (no retry, nothing further for this card or a later one) and every
\* issue the run had created is still there (no delete, no rollback).
C11_CardFailureAborts ==
  /\ \A i \in 1..Len(calls) :
       (calls[i].phase = "issues" /\ calls[i].code = 500)
         => (i = Len(calls) /\ pc = "aborted")
  /\ IssuesOfThisRun = CreatedThisRun

\* C11 witness: the set-status call of the second card failed after the
\* first card's issue and the second card's issue had been created; the run
\* is aborted and both issues are in the target
C11_Witness ==
  /\ pc = "aborted"
  /\ calls[Len(calls)].op = "setStatus"
  /\ calls[Len(calls)].phase = "issues"
  /\ calls[Len(calls)].code = 500
  /\ Len(cards) >= 2
  /\ calls[Len(calls)].card = cards[2].id
  /\ IssuesOfThisRun = 2

\* The user lookups of this run, in order: the k-th is that of map.users[k]
UserCalls ==
  LET P(c) == c.op = "getUser"
  IN Filter(calls, P)

UserNotFound == \E k \in 1..Len(UserCalls) : UserCalls[k].code = 404

\* C12: a user lookup answered 404 yields an unverified member entry for
\* its rule, the remaining rules are still looked up and the plan is then
\* invalid; a lookup failing otherwise is the run's last call, before
\* resolution and before any mutation.
C12_UserLookupErrors ==
  /\ \A k \in 1..Len(UserCalls) :
       /\ UserCalls[k].code = 404 =>
            /\ Len(users) >= k
            /\ users[k].trelloName = map.users[k].trello
            /\ users[k].github = ""
       /\ UserCalls[k].code = 500 =>
            /\ pc = "aborted"
            /\ calls[Len(calls)] = UserCalls[k]
            /\ resolved = EmptyResolution(<< >>)
            /\ ~MutatingCallIssued
  /\ pc \notin {"start", "milestones", "users", "aborted"}
       => Len(UserCalls) = Len(map.users)
  /\ UserNotFound =>
       /\ pc = "gate" => GateFails
       /\ pc \in {"users", "resolve", "gate", "failed", "aborted"}
       /\ ~MutatingCallIssued

\* C12 witness: the first of two user rules was answered 404, the second
\* was still looked up and found, and the gate has halted the run
C12_Witness ==
  /\ pc = "failed"
  /\ Len(UserCalls) = 2
  /\ UserCalls[1].code = 404
  /\ UserCalls[2].code = 200
  /\ users[1].github = ""
  /\ users[2].github = "alice"

\* A later rule of the map resolves the same list to a status option again
\* (validStatusFields.set overwrites the entry of the earlier rule)
LaterRuleSetsStatus(i, listId) ==
  \E j \in (i + 1)..Len(map.lists) :
    LET lj == FindTrelloList(board.lists, map.lists[j].list)
    IN /\ lj # 0
       /\ board.lists[lj].id = listId
       /\ MapHas(resolved.validStatusFields, listId)
       /\ FindStatusOption(StatusFieldOptions, map.lists[j].status) # 0
       /\ resolved.validStatusFields[listId]
            = StatusFieldOptions[FindStatusOption(StatusFieldOptions,
                                                  map.lists[j].status)]

\* C13: with a project configured, for every list rule with a status
\* reference whose list resolves: a reference that matches a status option
\* records the list in validStatusFields with that option whatever the
\* create flag; a miss with create=true and a string reference records
\* (list id, name) in statusFieldsToCreate; a miss with create=false or a
\* numeric reference records a missing status field; both misses make the
\* plan invalid.
C13_StatusResolution ==
  (pc = "gate" /\ projectInfo.set) =>
    \A i \in 1..Len(map.lists) :
      LET mapping == map.lists[i]
          li == FindTrelloList(board.lists, mapping.list)
          fi == FindStatusOption(StatusFieldOptions, mapping.status)
      IN (mapping.status # Undef /\ li # 0) =>
           IF fi # 0
           THEN /\ MapHas(resolved.validStatusFields, board.lists[li].id)
                /\ \/ resolved.validStatusFields[board.lists[li].id]
                        = StatusFieldOptions[fi]
                   \/ LaterRuleSetsStatus(i, board.lists[li].id)
           ELSE IF mapping.create /\ mapping.status.t = "str"
           THEN /\ InSeq(resolved.statusFieldsToCreate,
                         [trelloListId |-> board.lists[li].id,
                          name |-> mapping.status.s])
                /\ GateFails
           ELSE /\ InSeq(resolved.missingStatusFields, mapping.status)
                /\ GateFails

\* The label and milestone references of rule i, where present, resolve, so
\* that the rule's pass of the list loop reaches its status reference
RuleReachesStatus(i) ==
  LET mapping == map.lists[i]
  IN /\ Truthy(mapping.label) => FindGithubLabel(githubLabels, mapping.label) # 0
     /\ Truthy(mapping.milestone)
          => FindGithubMilestone(githubMilestones, mapping.milestone) # 0

\* C13, for the rules whose pass reaches the status reference: the three
\* outcomes are as C13 states them.  The rules left out are those of C2: a
\* missing list label or milestone ends the rule's pass before its status.
C13_StatusResolutionWhenReached ==
  (pc = "gate" /\ projectInfo.set) =>
    \A i \in 1..Len(map.lists) :
      LET mapping == map.lists[i]
          li == FindTrelloList(board.lists, mapping.list)
          fi == FindStatusOption(StatusFieldOptions, mapping.status)
      IN (mapping.status # Undef /\ li # 0 /\ RuleReachesStatus(i)) =>
           IF fi # 0
           THEN /\ MapHas(resolved.validStatusFields, board.lists[li].id)
                /\ \/ resolved.validStatusFields[board.lists[li].id]
                        = StatusFieldOptions[fi]
                   \/ LaterRuleSetsStatus(i, board.lists[li].id)
           ELSE IF mapping.create /\ mapping.status.t = "str"
           THEN /\ InSeq(resolved.statusFieldsToCreate,
                         [trelloListId |-> board.lists[li].id,
                          name |-> mapping.status.s])
                /\ GateFails
           ELSE /\ InSeq(resolved.missingStatusFields, mapping.status)
                /\ GateFails

\* The positions of the script at which the resolution pass of this run is over
AfterResolution ==
  {"gate", "failed", "confirm", "confirmExisting", "cancelled", "labels", "sync", "syncLoop",
   "issues", "comments", "project", "status", "done"}

\* The rules of the map for a source label name, in map order
RulesFor(name) == {k \in 1..Len(map.labels) : map.labels[k].trello = name}

\* The classification C14 gives source label i
ExpectedLabelEntry(i) ==
  LET name == board.labels[i].name
  IN IF RulesFor(name) = {}
     THEN LabelEntry("skipped", name, "", Undef, "")
     ELSE LET rule == map.labels[CHOOSE k \in RulesFor(name) :
                                   \A m \in RulesFor(name) : k <= m]
              hit == ContractFind(LabelCandidates(githubLabels), rule.github)
          IN IF rule.create
             THEN [LabelEntry("toCreate", name, rule.github.s, Undef, "")
                     EXCEPT !.color = rule.color]
             ELSE IF hit # 0
                  THEN LabelEntry("mapped", name, githubLabels[hit].name, Undef, "")
                  ELSE LabelEntry("missing", name, "", rule.github, "")

SourceLabelTypes == {"skipped", "toCreate", "mapped", "missing"}

\* C14: the label resolver gives every source label exactly one
\* classification: skipped without a rule of that exact name; toCreate
\* (name and optional color) when the first such rule has create=true;
\* mapped when it has create=false and its reference matches a target
\* label; missing when create=false and nothing matches, and then the plan
\* is invalid.
C14_LabelClassification ==
  pc \in AfterResolution =>
    /\ Cardinality({k \in 1..Len(resolved.labels) :
                      resolved.labels[k].type \in SourceLabelTypes})
         = Len(board.labels)
    /\ \A i \in 1..Len(board.labels) :
         /\ resolved.labels[i] = ExpectedLabelEntry(i)
         /\ resolved.labels[i].type = "missing" => GateFails

\* C14 witness: the rule {bug -> 99} found no target label and the rule
\* {feat -> "ui"} found one; the gate has halted the run
C14_Witness ==
  /\ pc = "failed"
  /\ Len(resolved.labels) >= 2
  /\ resolved.labels[1].type = "missing"
  /\ resolved.labels[1].lookup = IntV(99)
  /\ resolved.labels[2].type = "mapped"
  /\ resolved.labels[2].github = "ui"

\* The cards C15 excludes: archived, of an archived list, or of a list that
\* skip.lists names by id or by name
Excluded(card) ==
  \/ card.closed /\ ~opts.keepClosed
  \/ /\ ~opts.keepClosedLists
     /\ \E l \in 1..Len(board.lists) :
          board.lists[l].id = card.idList /\ board.lists[l].closed
  \/ \E k \in 1..Len(map.skip), l \in 1..Len(board.lists) :
       /\ board.lists[l].id = map.skip[k] \/ board.lists[l].name = map.skip[k]
       /\ board.lists[l].id = card.idList

RemainingCards ==
  LET P(card) == ~Excluded(card)
  IN SelectSeq(board.cards, P)

CreateCallsFor(id) ==
  Cardinality({i \in 1..Len(calls) :
                 calls[i].op = "createIssue" /\ calls[i].card = id})

\* C15: no issue is created for, and the synchroniser never matches
\* against, an archived card (unless keepClosed), a card of an archived
\* list (unless keepClosedLists) or a card of a list named by id or name in
\* skip.lists; every other card gets exactly one create-issue call in a
\* run that completes.
C15_FilteredCards ==
  /\ \A i \in 1..Len(calls) :
       calls[i].op = "createIssue" =>
         \E c \in 1..Len(RemainingCards) : RemainingCards[c].id = calls[i].card
  /\ pc \in {"sync", "syncLoop"} => cards = RemainingCards
  /\ \A i \in 1..Len(calls) :
       (calls[i].op = "setStatus" /\ calls[i].phase = "sync") =>
         \E c \in 1..Len(RemainingCards) :
           RemainingCards[c].name = ghItems[calls[i].item].issueTitle
  /\ pc = "done" =>
       \A c \in 1..Len(board.cards) :
         CreateCallsFor(board.cards[c].id)
           = IF Excluded(board.cards[c]) THEN 0 ELSE 1

\* C15 witness: a completed run over a board of which one card is archived,
\* one is in an archived list and one is in a skipped list; the project
\* items of the three, all off their list's status, were left alone, and
\* the one remaining card has its issue
C15_Witness ==
  /\ pc = "done"
  /\ Len(RemainingCards) = 1
  /\ CreateCallsFor(RemainingCards[1].id) = 1
  /\ \E a, b, c \in 1..Len(board.cards) :
       /\ board.cards[a].closed /\ ~opts.keepClosed
       /\ board.cards[b].idList = "l3" /\ ~opts.keepClosedLists
       /\ ~board.cards[c].closed /\ board.cards[c].idList = "l2"
       /\ map.skip = << "Done" >>
       /\ \A x \in {a, b, c} :
            \E k \in 1..Len(existingItems) :
              /\ existingItems[k].issueTitle = board.cards[x].name
              /\ MapHas(resolved.validStatusFields, board.cards[x].idList)
              /\ existingItems[k].currentStatus
                   # resolved.validStatusFields[board.cards[x].idList].name
              /\ SyncCallsFor(existingItems[k].id) = 0

\* The board card with the given id
CardById(id) ==
  board.cards[CHOOSE c \in 1..Len(board.cards) : board.cards[c].id = id]

\* C16: resolved milestones are keyed by source list id and applied to a
\* card through its list: the issue of a card whose list has a resolved
\* milestone carries that milestone's number, and the issue of a card
\* whose list has none carries no milestone.
C16_MilestoneByList ==
  \A i \in 1..Len(ghIssues) :
    ghIssues[i].run = run =>
      LET card == CardById(ghIssues[i].card)
      IN ghIssues[i].milestone
           = IF MapHas(resolved.validMilestones, card.idList)
             THEN resolved.validMilestones[card.idList].number
             ELSE 0

\* The three sections of C17 for a card, each as its pieces (<< >> when the
\* section is empty): the description, the checklist section, which is
\* there iff a checklist of the export is linked to the card, and the
\* provenance line with the attachment list
DescriptionSection(card) == IF card.desc = "" THEN << >> ELSE << card.desc >>

ChecklistLinked(card) ==
  \E i \in 1..Len(card.idChecklists), c \in 1..Len(board.checklists) :
    board.checklists[c].id = card.idChecklists[i]

ChecklistSection(card) ==
  IF ChecklistLinked(card) THEN GetChecklistContentForCard(card) ELSE << >>

ProvenanceSection(card) ==
  << "> Migrated from [Trello Card](" \o card.url \o ")\n" >>
  \o (IF card.attachments = << >> THEN << >>
      ELSE << JoinLines([i \in 1..Len(card.attachments) |->
                           "- [" \o card.attachments[i].name \o "]("
                             \o card.attachments[i].url \o ")"]) >>)

\* The non-empty sections with one separator between each two neighbours
RECURSIVE JoinSections(_)
JoinSections(sections) ==
  IF sections = << >> THEN << >>
  ELSE IF Len(sections) = 1 THEN sections[1]
  ELSE sections[1] \o << Separator >> \o JoinSections(Tail(sections))

ExpectedBody(card) ==
  LET NonEmpty(sec) == sec # << >>
  IN JoinSections(SelectSeq(<< DescriptionSection(card), ChecklistSection(card),
                               ProvenanceSection(card) >>, NonEmpty))

SeparatorCount(body) == Cardinality({i \in 1..Len(body) : body[i] = Separator})

\* C17: the body of every issue is the description, the checklist section
\* and the provenance line with the attachments, in that order, with
\* exactly one separator between each two consecutive non-empty sections:
\* it never starts or ends with a separator, never has two separators in a
\* row, and has no checklist section (and no separator for it) when no
\* checklist is linked to the card.
C17_BodyAssembly ==
  \A i \in 1..Len(ghIssues) :
    ghIssues[i].card # "" =>
      LET card == CardById(ghIssues[i].card)
          body == ghIssues[i].body
      IN /\ body = ExpectedBody(card)
         /\ body[1] # Separator
         /\ body[Len(body)] # Separator
         /\ \A k \in 1..(Len(body) - 1) :
              ~(body[k] = Separator /\ body[k + 1] = Separator)
         /\ ~ChecklistLinked(card) =>
              SeparatorCount(body) = IF card.desc = "" THEN 0 ELSE 1

\* C17 witness: the issue of a card with an empty description, one
\* checklist and one attachment: the checklist section comes first and one
\* separator stands between it and the provenance line
C17_Witness ==
  \E i \in 1..Len(ghIssues) :
    /\ ghIssues[i].card # ""
    /\ CardById(ghIssues[i].card).desc = ""
    /\ CardById(ghIssues[i].card).idChecklists = << "k1" >>
    /\ Len(CardById(ghIssues[i].card).attachments) = 1
    /\ Len(ghIssues[i].body) = 4
    /\ ghIssues[i].body[2] = Separator
    /\ SeparatorCount(ghIssues[i].body) = 1

\* The elements of a sequence
Range(seq) == {seq[k] : k \in 1..Len(seq)}

\* (i) of C18: the target names of the mapped and toCreate resolutions of
\* the card's label names
NamesFromCardLabels(card) ==
  {resolved.labels[k].github :
     k \in {j \in 1..Len(resolved.labels) :
              /\ resolved.labels[j].type \in {"mapped", "toCreate"}
              /\ resolved.labels[j].trello \in Range(card.labels)}}

\* (ii) of C18: the target names of the listMapped resolutions of the
\* card's list
NamesFromCardList(card) ==
  {resolved.labels[k].github :
     k \in {j \in 1..Len(resolved.labels) :
              /\ resolved.labels[j].type = "listMapped"
              /\ resolved.labels[j].trelloList = card.idList}}

\* C18: the label names sent with a card's issue are the target names of
\* the mapped and toCreate resolutions of the card's label names together
\* with the target name of a listMapped resolution of the card's list; at
\* most one list-derived label is added, and nothing comes from a skipped
\* or missing resolution.
C18_LabelsForCard ==
  \A i \in 1..Len(ghIssues) :
    ghIssues[i].run = run =>
      LET card == CardById(ghIssues[i].card)
          sent == ghIssues[i].labels
      IN /\ \E L \in SUBSET NamesFromCardList(card) :
              /\ Cardinality(L) <= 1
              /\ NamesFromCardList(card) # {} => L # {}
              /\ Range(sent) = NamesFromCardLabels(card) \cup L
         /\ Len(sent) <= Len(card.labels) + 1
         /\ \A k \in 1..Len(resolved.labels) :
              resolved.labels[k].type \in {"skipped", "missing", "missingList"}
                => resolved.labels[k].github \notin Range(sent)

\* C18 witness: the issue of a card with the label bug, which is to be
\* created as new, in a list mapped to the label ui, was sent the names new
\* and ui, while the source label feat has no rule
C18_Witness ==
  /\ \E i \in 1..Len(ghIssues) :
       /\ ghIssues[i].run = run
       /\ CardById(ghIssues[i].card).labels = << "bug" >>
       /\ ghIssues[i].labels = << "new", "ui" >>
  /\ \E k \in 1..Len(resolved.labels) : resolved.labels[k].type = "skipped"

\* The positions in the export of the comment actions of a card
CommentPositions(id) ==
  {p \in 1..Len(exportFile.actions) :
     /\ exportFile.actions[p].type = "commentCard"
     /\ exportFile.actions[p].idCard = id}

\* The place C19 gives the comment at position p: after every comment of the
\* card with an earlier timestamp, and after those with the same timestamp
\* that stand before it in the export
CommentRank(id, p) ==
  1 + Cardinality({q \in CommentPositions(id) :
                     \/ exportFile.actions[q].date.ms
                          < exportFile.actions[p].date.ms
                     \/ /\ exportFile.actions[q].date.ms
                             = exportFile.actions[p].date.ms
                        /\ q < p})

ExpectedComments(id) ==
  [k \in 1..Cardinality(CommentPositions(id)) |->
     exportFile.actions[CHOOSE p \in CommentPositions(id) :
                          CommentRank(id, p) = k].text]

\* The comments posted on issue n, in posting order
PostedComments(n) ==
  LET P(c) == c.issue = n
      posted == SelectSeq(ghComments, P)
  IN [k \in 1..Len(posted) |-> posted[k].text]

\* The comment loop of issue n has run to its end
CommentsComplete(n) ==
  \/ ghIssues[n].run < run
  \/ n < issue
  \/ n = issue /\ pc \in {"issues", "project", "status", "done"}

\* C19: the comments posted on a card's issue are exactly the comment
\* actions whose card reference is the card's id, in ascending order of
\* timestamp, those of equal timestamp in their order in the export,
\* whatever the order of the export.
C19_CommentOrder ==
  \A n \in 1..Len(ghIssues) :
    ghIssues[n].card # "" =>
      LET expected == ExpectedComments(ghIssues[n].card)
          posted == PostedComments(n)
      IN /\ Len(posted) <= Len(expected)
         /\ posted = SubSeq(expected, 1, Len(posted))
         /\ CommentsComplete(n) => posted = expected

\* C19, as the program behaves on an export read from JSON: no comment
\* action passes the parser, and no comment is ever posted.
C19_NoCommentPosted ==
  /\ \A p \in 1..Len(board.actions) : board.actions[p].type # "commentCard"
  /\ ghComments = << >>
  /\ \A i \in 1..Len(calls) : calls[i].op # "addComment"

====
